---- MODULE Spec2Model ----
(***************************************************************************)
(* A model of the resume extractor's JSON-Schema layer:                    *)
(*   src/src/json_schema_factory.py  (class JsonSchemaFactory and the      *)
(*                                    module's two file readers)           *)
(*   src/src/json_schema.py          (the free validation functions and    *)
(*                                    their error files)                   *)
(* Python values, JSON files and Draft-7 schemas are modelled by small     *)
(* tagged records, the jsonschema engine by its semantics on the keywords  *)
(* "type", "required" and "properties".                                    *)
(***************************************************************************)
EXTENDS Integers, Sequences, FiniteSets, TLC

VARIABLES
    validated_json_schema,  \* attribute of the JsonSchemaFactory object
    validator,              \* attribute of the JsonSchemaFactory object
    errorsDir,              \* the ./errors/ directory: "present" or "absent"
    errorFiles,             \* the text kind last written to each error file
    ncalls,                 \* calls of the free functions made so far
    last,                   \* the last operation: its arguments and outcome
    model,                  \* the last use of a Resume Record model class
    requests,               \* the chat-completion requests issued so far
    resultsFile,            \* what each results path holds
    log,                    \* the messages logged or printed so far
    app                     \* the last call of groq_app.py or json_app.py

vars ==
    <<validated_json_schema, validator, errorsDir, errorFiles, ncalls, last,
      model, requests, resultsFile, log, app>>

factoryVars == <<validated_json_schema, validator>>
utilVars == <<errorsDir, errorFiles, ncalls>>
extractVars == <<requests, resultsFile, log, app>>
appVars == <<model, extractVars>>

-----------------------------------------------------------------------------
(* JSON values held inside a mapping.  t is the JSON type of the value;    *)
(* s is the text of a string (or of a number), l the members of an array   *)
(* of strings; an object value maps every name of l to {"type": s}.        *)

Str(s) == [t |-> "string", s |-> s, l |-> {}]
Num == [t |-> "number", s |-> "123", l |-> {}]
List(L) == [t |-> "array", s |-> "", l |-> L]
Obj(s, L) == [t |-> "object", s |-> s, l |-> L]
Absent == [t |-> "absent", s |-> "", l |-> {}]

EmptyMap == [k \in {} |-> Absent]

(* Python values: None, a list, a str, a dict (with its mapping), the two  *)
(* booleans, a Draft7Validator bound to a schema, and an attribute that    *)
(* was never assigned.                                                     *)
PyNone == [kind |-> "None", map |-> EmptyMap]
PyList == [kind |-> "list", map |-> EmptyMap]
PyStr == [kind |-> "str", map |-> EmptyMap]
PyTrue == [kind |-> "True", map |-> EmptyMap]
PyFalse == [kind |-> "False", map |-> EmptyMap]
PyInt == [kind |-> "int", map |-> EmptyMap]
Dict(m) == [kind |-> "dict", map |-> m]
Unbound == [kind |-> "unbound", map |-> EmptyMap]
NotGiven == [kind |-> "NotGiven", map |-> EmptyMap]

(* `not x` of Python: None and the empty dict are falsy; the list and str  *)
(* fixtures are non-empty.                                                 *)
Falsy(v) == v.kind = "None" \/ (v.kind = "dict" /\ DOMAIN v.map = {})

-----------------------------------------------------------------------------
(* The fixtures: schemas over three keywords, instances over three keys.   *)

Keys == {"firstName", "lastName", "email"}

SimpleTypes ==
    {"array", "boolean", "integer", "null", "number", "object", "string"}

MkSchema(ty, rq, pr) ==
    LET val(k) == CASE k = "type" -> ty
                    [] k = "required" -> rq
                    [] OTHER -> pr
        D == {k \in {"type", "required", "properties"} : val(k) # Absent}
    IN  [k \in D |-> val(k)]

TypeKws == {Absent, Str("object"), Num}
RequiredKws ==
    {Absent, Str("email"), List({"email"}), List(Keys)}
PropertiesKws == {Absent, Obj("string", Keys)}

Schemas ==
    {MkSchema(ty, rq, pr) : ty \in TypeKws, rq \in RequiredKws,
                            pr \in PropertiesKws}

Inst(K, N) == [k \in K |-> IF k \in N THEN Num ELSE Str("x")]

Instances ==
    {Inst(K, N) : K \in SUBSET Keys, N \in {{}, {"email"}}}

(* A file on disk, as the reader sees it: no path given (None), no such    *)
(* file, text that is not JSON, or JSON text denoting a value.             *)
NoPath == [kind |-> "NoPath", map |-> EmptyMap]
NoFile == [kind |-> "NoFile", map |-> EmptyMap]
BadJson == [kind |-> "BadJson", map |-> EmptyMap]

OtherFiles == {NoPath, NoFile, BadJson, PyNone, PyList, PyStr}
SchemaFiles == {Dict(m) : m \in Schemas} \cup OtherFiles
DataFiles == {Dict(m) : m \in Instances} \cup OtherFiles

(* No model class has been used yet.                                       *)
NoModelCall == [module |-> "none", cls |-> "none"]

(* A results path that was never opened for writing, and one that holds    *)
(* the text json.dump(v, f, indent=n) wrote.                               *)
Unwritten == [written |-> FALSE, indent |-> 0, value |-> PyNone]
JsonDump(v, n) == [written |-> TRUE, indent |-> n, value |-> v]

(* No function of the two applications has been called yet.                *)
NoAppCall == [op |-> "none"]

(* The six section definitions of test_resume_section_schemas, in the      *)
(* order of the list: the title and the results path of each.              *)
section_schema_defs ==
    <<[title |-> "ResumeContactInformationSchema",
       results_path |-> "./results/resume-contact-information-results.json"],
      [title |-> "ResumeEmploymentHistorySchema",
       results_path |-> "./results/resume-employment-history-results.json"],
      [title |-> "ResumeEducationHistorySchema",
       results_path |-> "./results/resume-education-history-results.json"],
      [title |-> "ResumeSkillsSchema",
       results_path |-> "./results/resume-skills-results.json"],
      [title |-> "ResumeProjectsSchema",
       results_path |-> "./results/resume-projects-results.json"],
      [title |-> "ResumePublicationsSchema",
       results_path |-> "./results/resume-publications-results.json"]>>

SectionTitles ==
    {section_schema_defs[i].title : i \in 1..Len(section_schema_defs)}

(* f"errors/{title}_extracted_object_validation_error.txt"                 *)
SectionErrorFile(title) == title \o "_extracted_object_validation_error"

(* The results paths of the master schema_def and of the sections.         *)
MasterResultsPath == "./results/resume-schema-results.json"

ResultsPaths ==
    {MasterResultsPath}
      \cup {section_schema_defs[i].results_path :
                i \in 1..Len(section_schema_defs)}

ExtractIdle ==
    /\ requests = <<>>
    /\ resultsFile = [f \in ResultsPaths |-> Unwritten]
    /\ log = {}
    /\ app = NoAppCall

-----------------------------------------------------------------------------
(* Outcomes of a call: the exception that leaves it, or the value returned *)

Raise(e) == [exc |-> e, ret |-> PyNone]
Return(v) == [exc |-> "none", ret |-> v]

(* json.JSONDecodeError is a subclass of ValueError.                       *)
IsValueError(e) == e \in {"ValueError", "JSONDecodeError"}

-----------------------------------------------------------------------------
(* The jsonschema engine on the modelled keywords.                         *)

KeywordOk(k, v) ==
    CASE k = "type" -> v.t = "string" /\ v.s \in SimpleTypes
      [] k = "required" -> v.t = "array"
      [] k = "properties" -> v.t = "object" /\ v.s \in SimpleTypes
      [] OTHER -> TRUE

(* Draft7Validator.check_schema: the meta-schema accepts a mapping whose   *)
(* known keywords have the right types; unknown keywords are ignored.      *)
MetaValid(v) ==
    /\ v.kind = "dict"
    /\ \A k \in DOMAIN v.map : KeywordOk(k, v.map[k])

IsType(v, tname) ==
    CASE tname = "object" -> v.kind = "dict"
      [] tname = "array" -> v.kind = "list"
      [] tname = "string" -> v.kind = "str"
      [] tname = "null" -> v.kind = "None"
      [] OTHER -> FALSE

TypeError_(m, v) ==
    /\ "type" \in DOMAIN m
    /\ m["type"].t = "string"
    /\ ~IsType(v, m["type"].s)

(* required over a str iterates its characters, none of which is a key.    *)
RequiredError(m, v) ==
    /\ "required" \in DOMAIN m
    /\ v.kind = "dict"
    /\ \/ m["required"].t = "array"
          /\ \E n \in m["required"].l : n \notin DOMAIN v.map
       \/ m["required"].t = "string" /\ m["required"].s # ""

PropertiesError(m, v) ==
    /\ "properties" \in DOMAIN m
    /\ v.kind = "dict"
    /\ \E n \in m["properties"].l \cap DOMAIN v.map :
          v.map[n].t # m["properties"].s

(* The instance conforms to the (well-formed) schema.                      *)
Conforms(schema, v) ==
    /\ ~TypeError_(schema.map, v)
    /\ ~RequiredError(schema.map, v)
    /\ ~PropertiesError(schema.map, v)

(* Draft7Validator(schema).validate(instance): the schema is NOT checked;  *)
(* the first error the keywords yield, in the mapping's key order, is      *)
(* raised.  A "type" that is no string raises UnknownType when reached.    *)
ValidatorValidate(schema, v) ==
    LET m == schema.map
        unknown == "type" \in DOMAIN m /\ m["type"].t # "string"
        failing == TypeError_(m, v) \/ RequiredError(m, v)
                      \/ PropertiesError(m, v)
    IN  (IF unknown THEN {"UnknownType"} ELSE {})
          \cup (IF failing THEN {"ValidationError"} ELSE {})
          \cup (IF ~unknown /\ ~failing THEN {"none"} ELSE {})

(* jsonschema.validate(instance, schema): validator_for(schema) tests      *)
(* `"$schema" not in schema`, a TypeError on None; then check_schema, then *)
(* the best error of the instance.                                         *)
LibValidate(v, schema) ==
    IF schema.kind = "None" THEN "TypeError"
    ELSE IF ~MetaValid(schema) THEN "SchemaError"
    ELSE IF ~Conforms(schema, v) THEN "ValidationError"
    ELSE "none"

-----------------------------------------------------------------------------
(* src/src/json_schema_factory.py                                          *)

factory_read_json_file(file) ==
    IF file.kind = "NoPath" THEN Raise("ValueError")
    ELSE IF file.kind = "NoFile" THEN Raise("FileNotFoundError")
    ELSE IF file.kind = "BadJson" THEN Raise("JSONDecodeError")
    ELSE IF file.kind = "None" THEN Raise("ValueError")
    ELSE IF file.kind # "dict" THEN Raise("ValueError")
    ELSE Return(file)

factory_read_json_schema_file(file) ==
    IF file.kind = "NoPath" THEN Raise("ValueError")
    ELSE LET r == factory_read_json_file(file)
         IN  IF r.exc # "none" THEN r
             ELSE IF r.ret.kind = "None" THEN Raise("ValueError")
             ELSE IF r.ret.kind # "dict" THEN Raise("ValueError")
             ELSE r

check_schema_validity(schema) ==
    IF MetaValid(schema) THEN Return(PyTrue) ELSE Raise("SchemaError")

(* Called with `given` arguments after self; the def takes two             *)
(* (schema_object, name_types), and its body names a function the module   *)
(* does not define.                                                        *)
check_structural_integrity(given, schema) ==
    IF given # 2 THEN Raise("TypeError") ELSE Raise("NameError")

JsonSchemaFactory_validate_data_object(vjs, data) ==
    LET e == LibValidate(data, vjs)
    IN  IF e = "none" THEN Return(PyTrue)
        ELSE IF e \in {"ValidationError", "SchemaError"} THEN Return(PyFalse)
        ELSE Raise(e)

JsonSchemaFactory_validate_instance(given, instance, schema) ==
    IF given # 2 THEN Raise("TypeError")
    ELSE LET e == LibValidate(instance, schema)
         IN  IF e = "none" THEN Return(PyTrue)
             ELSE IF e \in {"ValidationError", "SchemaError"}
                  THEN Return(PyFalse)
             ELSE Raise(e)

(* get_validated_json_schema without its guard.                            *)
get_validated_json_schema_Unguarded(vjs) == Return(vjs)

get_validated_json_schema(vjs) ==
    IF vjs.kind = "None" THEN Raise("ValueError") ELSE Return(vjs)

Draft7Validator(schema) == [kind |-> "Draft7Validator", map |-> schema.map]

InitFailed(e, vjs, vdr) == [exc |-> e, vjs |-> vjs, validator |-> vdr]

(* JsonSchemaFactory(...) with `given` arguments: the whole of __init__.   *)
JsonSchemaFactory_init(given, schemaFile, dataFile) ==
    IF given # 2 THEN InitFailed("TypeError", Unbound, Unbound)
    ELSE
    LET r1 == factory_read_json_schema_file(schemaFile)
        r2 == factory_read_json_file(dataFile)
        r3 == check_schema_validity(r1.ret)
        r4 == check_structural_integrity(1, r1.ret)
        r5 == JsonSchemaFactory_validate_data_object(PyNone, r2.ret)
    IN  IF r1.exc # "none" THEN InitFailed(r1.exc, Unbound, Unbound)
        ELSE IF Falsy(r1.ret) THEN InitFailed("ValueError", Unbound, Unbound)
        ELSE IF r2.exc # "none" THEN InitFailed(r2.exc, Unbound, Unbound)
        ELSE IF Falsy(r2.ret) THEN InitFailed("ValueError", Unbound, Unbound)
        ELSE IF r3.exc # "none" THEN InitFailed(r3.exc, PyNone, PyNone)
        ELSE IF r4.exc # "none" THEN InitFailed(r4.exc, PyNone, PyNone)
        ELSE IF r5.exc # "none" THEN InitFailed(r5.exc, PyNone, PyNone)
        ELSE [exc |-> "none", vjs |-> r1.ret,
              validator |-> Draft7Validator(r1.ret)]

-----------------------------------------------------------------------------
(* The factory's life: one construction, then calls of its methods.  No    *)
(* construction returns normally (line 185 raises whenever it is reached), *)
(* so the methods are exercised on the object as __init__ left it, once    *)
(* lines 179-180 have bound both attributes.  validate_instance reads no   *)
(* attribute of the object at all.                                         *)

ErrorFileNames ==
    {"validate_data_object_error_1", "validate_data_object_error_2",
     "validate_data_object_error_3", "validate_data_object_error_4",
     "validate_json_schema_object_error_1",
     "validate_json_schema_object_error_2",
     "validate_json_schema_object_error_3",
     "schema_validation_error", "pydantic_validation_error"}
      \cup {SectionErrorFile(title) : title \in SectionTitles}

Op(op, given, a1, a2, r) ==
    [op |-> op, given |-> given, a1 |-> a1, a2 |-> a2,
     exc |-> r.exc, ret |-> r.ret]

Init ==
    /\ validated_json_schema = Unbound
    /\ validator = Unbound
    /\ errorsDir = "present"
    /\ errorFiles = [f \in ErrorFileNames |-> "none"]
    /\ ncalls = 0
    /\ last = Op("new", 0, NotGiven, NotGiven, Return(PyNone))
    /\ model = NoModelCall
    /\ ExtractIdle

Construct ==
    /\ last.op = "new"
    /\ \E given \in {1, 2}, sf \in SchemaFiles, df \in DataFiles \cup {NotGiven} :
          /\ (given = 1) <=> (df = NotGiven)
          /\ LET r == JsonSchemaFactory_init(given, sf, df)
             IN  /\ validated_json_schema' = r.vjs
                 /\ validator' = r.validator
                 /\ last' = Op("__init__", given, sf, df, Raise(r.exc))
    /\ UNCHANGED utilVars
    /\ UNCHANGED appVars

AttributesBound == validated_json_schema # Unbound /\ validator # Unbound

GetValidatedJsonSchema ==
    /\ AttributesBound
    /\ last' = Op("get_validated_json_schema", 0, NotGiven, NotGiven,
                  get_validated_json_schema(validated_json_schema))
    /\ UNCHANGED <<factoryVars, utilVars>>
    /\ UNCHANGED appVars

ValidateInstance ==
    /\ AttributesBound
    /\ \E given \in {1, 2}, instance \in {Dict(m) : m \in Instances} \cup {PyList},
          schema \in {Dict(m) : m \in Schemas} \cup {PyNone, NotGiven} :
          /\ (given = 1) <=> (schema = NotGiven)
          /\ last' = Op("validate_instance", given, instance, schema,
                        JsonSchemaFactory_validate_instance(given, instance, schema))
    /\ UNCHANGED <<factoryVars, utilVars>>
    /\ UNCHANGED appVars

ValidateDataObject ==
    /\ AttributesBound
    /\ \E data \in {Dict(m) : m \in Instances} \cup {PyList} :
          last' = Op("JsonSchemaFactory.validate_data_object", 1, data, NotGiven,
                     JsonSchemaFactory_validate_data_object(
                         validated_json_schema, data))
    /\ UNCHANGED <<factoryVars, utilVars>>
    /\ UNCHANGED appVars

Next ==
    \/ Construct
    \/ GetValidatedJsonSchema
    \/ ValidateInstance
    \/ ValidateDataObject

Spec == Init /\ [][Next]_vars

-----------------------------------------------------------------------------
(* src/src/json_schema.py                                                  *)

MaxCalls == 2

(* read_json_file without its isinstance(json_object, dict) test.          *)
read_json_file_NoDictTest(file) ==
    IF file.kind = "NoPath" THEN Raise("ValueError")
    ELSE IF file.kind = "NoFile" THEN Raise("FileNotFoundError")
    ELSE IF file.kind = "BadJson" THEN Raise("JSONDecodeError")
    ELSE IF file.kind = "None" THEN Raise("ValueError")
    ELSE Return(file)

read_json_file(file) ==
    IF file.kind = "NoPath" THEN Raise("ValueError")
    ELSE IF file.kind = "NoFile" THEN Raise("FileNotFoundError")
    ELSE IF file.kind = "BadJson" THEN Raise("JSONDecodeError")
    ELSE IF file.kind = "None" THEN Raise("ValueError")
    ELSE IF file.kind # "dict" THEN Raise("ValueError")
    ELSE Return(file)

(* read_json_schema_file without Draft7Validator.check_schema.             *)
read_json_schema_file_NoCheck(file) == read_json_file(file)

read_json_schema_file(file) ==
    LET r == read_json_file(file)
    IN  IF r.exc # "none" THEN r
        ELSE IF ~MetaValid(r.ret) THEN Raise("SchemaError")
        ELSE r

(* open(error_file, "w") fails when ./errors/ does not exist; the failure  *)
(* is logged and raised again.                                             *)
write_error_file(error_file, text, dir, files) ==
    IF error_file = "None" THEN [exc |-> "ValueError", files |-> files]
    ELSE IF dir # "present"
         THEN [exc |-> "FileNotFoundError", files |-> files]
    ELSE [exc |-> "none", files |-> [files EXCEPT ![error_file] = text]]

get_json_schema_validator(schema) == Draft7Validator(schema)

(* What leaves the try block of validate_data_object.                      *)
ValidateBody(schema, data) ==
    IF Falsy(schema) THEN {"ValueError"}
    ELSE IF schema.kind # "dict" THEN {"ValueError"}
    ELSE IF Falsy(data) THEN {"ValueError"}
    ELSE IF data.kind # "dict" THEN {"ValueError"}
    ELSE ValidatorValidate(get_json_schema_validator(schema), data)

ValidateDataObjectFile(e) ==
    CASE IsValueError(e) -> "validate_data_object_error_1"
      [] e = "ValidationError" -> "validate_data_object_error_2"
      [] e = "SchemaError" -> "validate_data_object_error_3"
      [] OTHER -> "validate_data_object_error_4"

(* The outcomes of validate_data_object(schema, data): each handler writes *)
(* its error file and raises the exception again, unless the write itself  *)
(* raises.                                                                 *)
validate_data_object(schema, data, dir, files) ==
    {IF e = "none"
       THEN [exc |-> "none", ret |-> PyTrue, files |-> files]
       ELSE LET w == write_error_file(ValidateDataObjectFile(e), e, dir, files)
            IN  [exc |-> IF w.exc # "none" THEN w.exc ELSE e,
                 ret |-> PyNone, files |-> w.files]
     : e \in ValidateBody(schema, data)}

ValidateJsonSchemaObjectFile(e) ==
    CASE e = "ValidationError" -> "validate_json_schema_object_error_1"
      [] e = "SchemaError" -> "validate_json_schema_object_error_2"
      [] OTHER -> "validate_json_schema_object_error_3"

ErrorMessageHead(e) ==
    CASE e = "ValidationError" -> "Validation error"
      [] e = "SchemaError" -> "Schema error"
      [] OTHER -> "Exception"

validate_json_schema_object(schema, known, dir, files) ==
    {IF r.exc = "none"
       THEN [exc |-> "none", ret |-> PyTrue, files |-> r.files]
       ELSE LET w == write_error_file(ValidateJsonSchemaObjectFile(r.exc),
                                      ErrorMessageHead(r.exc), dir, r.files)
            IN  IF w.exc # "none"
                THEN [exc |-> w.exc, ret |-> PyNone, files |-> w.files]
                ELSE [exc |-> "none", ret |-> PyFalse, files |-> w.files]
     : r \in validate_data_object(schema, known, dir, files)}

-----------------------------------------------------------------------------
(* Calls of the free functions, on any files and arguments, with ./errors/ *)
(* present or not.                                                         *)

AllFiles == SchemaFiles \cup DataFiles
SchemaArgs == {Dict(m) : m \in Schemas} \cup {PyNone, PyList}
DataArgs == {Dict(m) : m \in Instances} \cup {PyNone, PyList}

UtilInit ==
    /\ validated_json_schema = Unbound
    /\ validator = Unbound
    /\ errorsDir \in {"present", "absent"}
    /\ errorFiles = [f \in ErrorFileNames |-> "none"]
    /\ ncalls = 0
    /\ last = Op("new", 0, NotGiven, NotGiven, Return(PyNone))
    /\ model = NoModelCall
    /\ ExtractIdle

ReadCall(name, r, file) ==
    /\ ncalls' = ncalls + 1
    /\ last' = Op(name, 1, file, NotGiven, r)
    /\ UNCHANGED <<factoryVars, errorsDir, errorFiles>>
    /\ UNCHANGED appVars

ReadJsonFile ==
    /\ ncalls < MaxCalls
    /\ \E file \in AllFiles : ReadCall("read_json_file", read_json_file(file), file)

ReadJsonSchemaFile ==
    /\ ncalls < MaxCalls
    /\ \E file \in AllFiles :
        ReadCall("read_json_schema_file", read_json_schema_file(file), file)

FactoryReadJsonFile ==
    /\ ncalls < MaxCalls
    /\ \E file \in AllFiles :
        ReadCall("factory_read_json_file", factory_read_json_file(file), file)

FactoryReadJsonSchemaFile ==
    /\ ncalls < MaxCalls
    /\ \E file \in AllFiles :
        ReadCall("factory_read_json_schema_file",
                 factory_read_json_schema_file(file), file)

ValidateCall(name, r, schema, data) ==
    /\ ncalls' = ncalls + 1
    /\ errorFiles' = r.files
    /\ last' = Op(name, 2, schema, data, r)
    /\ UNCHANGED <<factoryVars, errorsDir>>
    /\ UNCHANGED appVars

UtilValidateDataObject ==
    /\ ncalls < MaxCalls
    /\ \E schema \in SchemaArgs, data \in DataArgs :
        \E r \in validate_data_object(schema, data, errorsDir, errorFiles) :
            ValidateCall("validate_data_object", r, schema, data)

ValidateJsonSchemaObject ==
    /\ ncalls < MaxCalls
    /\ \E schema \in SchemaArgs, known \in DataArgs :
        \E r \in validate_json_schema_object(schema, known, errorsDir, errorFiles) :
            ValidateCall("validate_json_schema_object", r, schema, known)

UtilNext ==
    \/ ReadJsonFile
    \/ ReadJsonSchemaFile
    \/ FactoryReadJsonFile
    \/ FactoryReadJsonSchemaFile
    \/ UtilValidateDataObject
    \/ ValidateJsonSchemaObject

UtilSpec == UtilInit /\ [][UtilNext]_vars

-----------------------------------------------------------------------------
(* Properties of the factory, checked under Spec.                          *)

AfterInit == last.op = "__init__"
SchemaRead == last.a1
KnownGoodRead == last.a2
NothingAssigned ==
    validated_json_schema.kind # "dict" /\ validator.kind # "Draft7Validator"

(* C1: constructing the factory from a schema file whose mapping fails     *)
(* Draft-7 meta-validation raises SchemaError (SchemaInvalid), and leaves  *)
(* no validated_json_schema and no validator.                              *)
C1_FactoryFailFast ==
    (AfterInit /\ SchemaRead.kind = "dict" /\ ~MetaValid(SchemaRead))
        => (last.exc = "SchemaError" /\ NothingAssigned)

(* C2: with a known-good instance path supplied, an instance that does not *)
(* conform to the candidate schema makes construction abort with           *)
(* SchemaError, before validated_json_schema and validator are assigned.   *)
C2_CrossCheckAborts ==
    (AfterInit /\ last.given = 2
        /\ SchemaRead.kind = "dict" /\ MetaValid(SchemaRead)
        /\ KnownGoodRead.kind = "dict" /\ ~Falsy(KnownGoodRead)
        /\ ~Conforms(SchemaRead, KnownGoodRead))
        => (last.exc = "SchemaError" /\ NothingAssigned)

(* C3: with a Draft-7-valid schema mapping and a known-good instance that  *)
(* conforms to it, construction returns without raising, and then          *)
(* validated_json_schema is the mapping read from the schema file and      *)
(* validator is a Draft-7 validator bound to that mapping.                 *)
C3_ConstructionSucceeds ==
    (AfterInit /\ last.given = 2
        /\ SchemaRead.kind = "dict" /\ ~Falsy(SchemaRead) /\ MetaValid(SchemaRead)
        /\ KnownGoodRead.kind = "dict" /\ ~Falsy(KnownGoodRead)
        /\ Conforms(SchemaRead, KnownGoodRead))
        => /\ last.exc = "none"
           /\ validated_json_schema = SchemaRead
           /\ validator = Draft7Validator(SchemaRead)

(* C4: the known-good path is optional: constructing the factory from the  *)
(* schema path alone succeeds for every schema file holding a Draft-7-     *)
(* valid mapping, and stores that mapping.                                 *)
C4_KnownGoodOptional ==
    (AfterInit /\ last.given = 1
        /\ SchemaRead.kind = "dict" /\ ~Falsy(SchemaRead) /\ MetaValid(SchemaRead))
        => (last.exc = "none" /\ validated_json_schema = SchemaRead)

(* C5: validate_instance called with the instance alone never raises and   *)
(* returns True or False.                                                  *)
C5_ValidateInstanceNeverRaises ==
    (last.op = "validate_instance" /\ last.given = 1)
        => (last.exc = "none" /\ last.ret \in {PyTrue, PyFalse})

MethodOps ==
    {"get_validated_json_schema", "validate_instance",
     "JsonSchemaFactory.validate_data_object"}

-----------------------------------------------------------------------------
(* Properties of the file readers and free validators, checked under       *)
(* UtilSpec.                                                               *)

ReadJsonFileOps == {"read_json_file", "factory_read_json_file"}
ReadSchemaOps == {"read_json_schema_file", "factory_read_json_schema_file"}
NotAMapping == {"NoPath", "BadJson", "None", "list", "str"}

(* C7 as stated: read_json_file (either module's) returns only a non-empty *)
(* mapping, and raises ValueError (InvalidInput) for an undefined path,    *)
(* invalid JSON, null, an empty mapping, an array or a scalar.             *)
C7_ReadsOnlyNonEmptyMapping ==
    last.op \in ReadJsonFileOps =>
        /\ last.exc = "none" =>
              last.ret.kind = "dict" /\ DOMAIN last.ret.map # {}
        /\ (last.a1.kind \in NotAMapping \/ last.a1 = Dict(EmptyMap)) =>
              IsValueError(last.exc)

(* C7 amended: read_json_file (either module's) returns the parsed value   *)
(* exactly when the file holds a mapping, the empty mapping included, and  *)
(* raises ValueError (InvalidInput; JSONDecodeError is one) for an         *)
(* undefined path, invalid JSON, null, an array or a scalar.               *)
C7_ReadsAnyMapping ==
    last.op \in ReadJsonFileOps =>
        /\ last.exc = "none" <=> last.a1.kind = "dict"
        /\ last.exc = "none" => last.ret = last.a1
        /\ last.a1.kind \in NotAMapping => IsValueError(last.exc)

(* C7 witness: a file holding {} was read and {} was returned.             *)
C7_Witness ==
    /\ last.op = "read_json_file"
    /\ last.a1 = Dict(EmptyMap)
    /\ last.exc = "none"
    /\ last.ret = Dict(EmptyMap)

(* C8 as stated: both read_json_schema_file functions return a mapping     *)
(* only if it passes Draft-7 meta-validation and raise SchemaError         *)
(* (SchemaInvalid) for a mapping that does not.                            *)
C8_BothSchemaReadersValidate ==
    last.op \in ReadSchemaOps =>
        /\ last.exc = "none" => MetaValid(last.ret)
        /\ (last.a1.kind = "dict" /\ ~MetaValid(last.a1)) =>
              last.exc = "SchemaError"

(* C8 amended: json_schema.read_json_schema_file (the batch harness's)     *)
(* returns a mapping only if it passes Draft-7 meta-validation and raises  *)
(* SchemaError for one that does not; json_schema_factory's                *)
(* read_json_schema_file returns every mapping it reads, unvalidated.      *)
C8_HarnessReaderValidates ==
    /\ last.op = "read_json_schema_file" =>
          /\ last.exc = "none" => (MetaValid(last.ret) /\ last.ret = last.a1)
          /\ (last.a1.kind = "dict" /\ ~MetaValid(last.a1)) =>
                last.exc = "SchemaError"
          /\ (last.a1.kind = "dict" /\ MetaValid(last.a1)) => last.exc = "none"
    /\ last.op = "factory_read_json_schema_file" =>
          (last.a1.kind = "dict" => (last.exc = "none" /\ last.ret = last.a1))

(* C8 witness: the harness's reader met a mapping that is no well-formed   *)
(* Draft-7 schema and raised SchemaError.                                  *)
C8_Witness ==
    /\ last.op = "read_json_schema_file"
    /\ last.a1.kind = "dict"
    /\ ~MetaValid(last.a1)
    /\ last.exc = "SchemaError"

(* C9: validate_data_object(schema, instance), given two non-empty         *)
(* mappings of which the schema is malformed, raises SchemaError           *)
(* (SchemaInvalid) to its caller.                                          *)
C9_MalformedSchemaRaisesSchemaError ==
    (last.op = "validate_data_object" /\ errorsDir = "present"
        /\ last.a1.kind = "dict" /\ ~Falsy(last.a1)
        /\ last.a2.kind = "dict" /\ ~Falsy(last.a2)
        /\ ~MetaValid(last.a1))
        => last.exc = "SchemaError"

(* C10: validate_json_schema_object never raises, whatever its arguments   *)
(* and whatever the state of ./errors/: it returns True or False.          *)
C10_ProxyNeverRaises ==
    last.op = "validate_json_schema_object"
        => (last.exc = "none" /\ last.ret \in {PyTrue, PyFalse})

-----------------------------------------------------------------------------
(* The Resume Record model classes:                                        *)
(*   src/src/pydantic_resume.py       (imported by groq_app and json_app)  *)
(*   src/pydantic_app.py              (a script with its own classes)      *)
(*   src/src/test-pydantic-resume.py  (a script with its own classes)      *)

(* A date value is None or a str; the text of a str is held as the tokens  *)
(* the directives of strptime consume: digit groups, month names and the   *)
(* literal text between them.                                              *)
DateNone == [kind |-> "None", toks |-> <<>>]
DateStr(toks) == [kind |-> "str", toks |-> toks]

(* The regular expressions of the directives, on the modelled tokens:      *)
(* %Y four digits, %m 1..12, %d 1..31, %b and %B the locale's names.       *)
Year4 == {"2020"}
MonthNum == {"02", "05"}
DayNum == {"02", "05", "15", "30"}
MonthAbbr == {"May", "Sep"}
MonthFull == {"May", "September"}

TokenMatches(tok, directive) ==
    CASE directive = "%Y" -> tok \in Year4
      [] directive = "%m" -> tok \in MonthNum
      [] directive = "%d" -> tok \in DayNum
      [] directive = "%b" -> tok \in MonthAbbr
      [] directive = "%B" -> tok \in MonthFull
      [] OTHER -> tok = directive

(* The days of the modelled months of 2020, a leap year.                   *)
DaysInMonth(tok) ==
    CASE tok = "02" -> 29
      [] tok \in {"Sep", "September"} -> 30
      [] OTHER -> 31

DayOf(tok) ==
    CASE tok = "02" -> 2
      [] tok = "05" -> 5
      [] tok = "15" -> 15
      [] OTHER -> 30

(* datetime.strptime(value, date_format): TRUE when it returns, FALSE when *)
(* it raises ValueError: the text does not match the format, or the day is *)
(* out of range for the month.                                             *)
strptime(toks, date_format) ==
    /\ Len(toks) = Len(date_format)
    /\ \A i \in 1..Len(toks) : TokenMatches(toks[i], date_format[i])
    /\ \A i, j \in 1..Len(toks) :
          date_format[i] = "%d" /\ date_format[j] \in {"%m", "%b", "%B"}
              => DayOf(toks[i]) <= DaysInMonth(toks[j])

(* The date_formats of src/src/pydantic_resume.py, in the dict's order.    *)
date_formats ==
    << <<"%Y", "-", "%m", "-", "%d">>,
       <<"%Y", "-", "%m">>,
       <<"%Y">>,
       <<"%b", " ", "%d", ", ", "%Y">>,
       <<"%b", " ", "%Y">>,
       <<"%B", " ", "%d", ", ", "%Y">>,
       <<"%B", " ", "%Y">> >>

(* The date_formats of src/pydantic_app.py.                                *)
app_date_formats ==
    << <<"%Y", "-", "%m", "-", "%d">>,
       <<"%Y", "-", "%m">>,
       <<"%Y">> >>

DateOk(v) == [exc |-> "none", ret |-> v]
DateFail(e) == [exc |-> e, ret |-> DateNone]

(* The loop over the formats: the value itself on the first format that    *)
(* parses it, the exception of the raise statement when none does.         *)
RECURSIVE TryFormats(_, _, _, _)
TryFormats(value, formats, i, rejection) ==
    IF i > Len(formats) THEN DateFail(rejection)
    ELSE IF strptime(value.toks, formats[i]) THEN DateOk(value)
    ELSE TryFormats(value, formats, i + 1, rejection)

(* Duration.validate_date_format of src/src/pydantic_resume.py.            *)
validate_date_format(value) ==
    IF value.kind = "None" THEN DateOk(value)
    ELSE TryFormats(value, date_formats, 1, "ValueError")

(* Duration.validate_date_format of src/pydantic_app.py.  Its parameter    *)
(* `field` is bound to the ValidationInfo of the field validator, which    *)
(* has no attribute `name`: building the message of the ValueError raises  *)
(* AttributeError instead.                                                 *)
app_validate_date_format(value) ==
    IF value.kind = "None" THEN DateOk(value)
    ELSE TryFormats(value, app_date_formats, 1, "AttributeError")

(* The date strings of the fixtures.                                       *)
IsoDay == DateStr(<<"2020", "-", "05", "-", "15">>)
IsoMonth == DateStr(<<"2020", "-", "05">>)
IsoYear == DateStr(<<"2020">>)
AbbrDay == DateStr(<<"May", " ", "15", ", ", "2020">>)
AbbrMonth == DateStr(<<"May", " ", "2020">>)
SepMonth == DateStr(<<"Sep", " ", "2020">>)
FullDay == DateStr(<<"September", " ", "15", ", ", "2020">>)
FullMonth == DateStr(<<"September", " ", "2020">>)
SlashDay == DateStr(<<"15", "/", "05", "/", "2020">>)
NotADate == DateStr(<<"not-a-date">>)
FebThirty == DateStr(<<"2020", "-", "02", "-", "30">>)

DateValues ==
    {DateNone, IsoDay, IsoMonth, IsoYear, AbbrDay, AbbrMonth, SepMonth,
     FullDay, FullMonth, SlashDay, NotADate, FebThirty}

(* The three files that define the model classes.                          *)
Modules == {"src.pydantic_resume", "pydantic_app", "test-pydantic-resume"}

(* Compiling src/src/pydantic_resume.py: line 230 is a print call indented *)
(* by four columns, line 231 a string literal indented by eight.  A line   *)
(* indented deeper than a line that opens no block is an IndentationError. *)
Line230Indent == 4
Line231Indent == 8

compile_pydantic_resume ==
    IF Line231Indent > Line230Indent THEN "IndentationError" ELSE "none"

(* `from <module> import ...`: the exception that leaves the import.  A    *)
(* failed import is not cached, every import of the module compiles anew.  *)
import_module(m) ==
    IF m = "src.pydantic_resume" THEN compile_pydantic_resume ELSE "none"

(* The fields each class declares without a default.                       *)
ContactRequired(m) ==
    IF m = "test-pydantic-resume"
    THEN {"firstName", "lastName", "email", "country"}
    ELSE {"firstName", "lastName", "email"}

ContactDeclared(m) ==
    CASE m = "src.pydantic_resume" ->
             {"firstName", "lastName", "email", "phone"}
      [] m = "pydantic_app" ->
             {"firstName", "lastName", "email", "phone", "address", "city",
              "state", "zipcode", "country"}
      [] OTHER ->
             {"firstName", "lastName", "email", "phone", "address", "city",
              "state", "zipCode", "country"}

WorkRequired ==
    {"workPositionOrTitle", "workForCompanyName", "workLocationOrRemote",
     "workResponsibilitiesAccomplishments"}

EducationRequired(m) ==
    IF m = "src.pydantic_resume" THEN {"institution", "degree", "majors"}
    ELSE {"institution", "degree"}

(* The fields declared as a list of str for which the fixtures hold a str. *)
EducationListTyped(m) ==
    IF m = "test-pydantic-resume" THEN {"majors"} ELSE {}

(* PydanticResume without its educationHistory field.                      *)
ResumeRequired_NoEducation == {"contactInformation", "workHistory"}

ResumeRequired == {"contactInformation", "workHistory", "educationHistory"}

(* Duration.validate_date_format of the module; the Duration of            *)
(* test-pydantic-resume.py has no validator.                               *)
DurationValidator(m, value) ==
    CASE m = "src.pydantic_resume" -> validate_date_format(value)
      [] m = "pydantic_app" -> app_validate_date_format(value)
      [] OTHER -> DateOk(value)

(* Duration(start=value) with the class of module m: pydantic reports a    *)
(* ValueError of the validator as its ValidationError, any other exception *)
(* leaves the constructor as it is.                                        *)
Duration(m, value) ==
    LET r == DurationValidator(m, value)
    IN  IF import_module(m) # "none" THEN DateFail(import_module(m))
        ELSE IF r.exc = "ValueError" THEN DateFail("ValidationError")
        ELSE r

(* A candidate mapping: for each of the three required top-level keys      *)
(* whether it is present and what it holds, and the other top-level keys.  *)
(* contactInformation holds a mapping of str values, given by its keys; a  *)
(* history holds a list of items, each given by its keys (all str or list  *)
(* of str as the master schema has them) and the start of its Duration.    *)
NoContact == [present |-> FALSE, keys |-> {}]
Contact(K) == [present |-> TRUE, keys |-> K]
NoHistory == [present |-> FALSE, items |-> <<>>]
History(items) == [present |-> TRUE, items |-> items]
Item(K, start) == [keys |-> K, start |-> start]

Candidate(ci, wh, eh, other) ==
    [contactInformation |-> ci, workHistory |-> wh, educationHistory |-> eh,
     other |-> other]

ContactKeys == {"firstName", "lastName", "email", "country", "nickname"}
OtherKeys == {"hobbies"}

FullWorkItem(start) == Item(WorkRequired, start)
FullEducationItem(start) == Item({"institution", "degree", "majors"}, start)

WorkHistories ==
    {NoHistory, History(<<>>),
     History(<<FullWorkItem(DateNone)>>),
     History(<<FullWorkItem(IsoMonth)>>),
     History(<<FullWorkItem(AbbrMonth)>>),
     History(<<FullWorkItem(NotADate)>>),
     History(<<Item(WorkRequired \ {"workForCompanyName"}, DateNone)>>)}

EducationHistories ==
    {NoHistory, History(<<>>),
     History(<<FullEducationItem(IsoYear)>>),
     History(<<Item({"institution", "degree"}, DateNone)>>),
     History(<<Item({"institution"}, DateNone)>>)}

Candidates ==
    {Candidate(ci, wh, eh, other) :
        ci \in {NoContact} \cup {Contact(K) : K \in SUBSET ContactKeys},
        wh \in WorkHistories, eh \in EducationHistories,
        other \in SUBSET OtherKeys}

NoRecord == Candidate(NoContact, NoHistory, NoHistory, {})
ResumeOk(v) == [exc |-> "none", ret |-> v]
ResumeFail(e) == [exc |-> e, ret |-> NoRecord]

(* The errors pydantic collects for one item of a history.                 *)
ItemInvalid(m, item, required, listTyped) ==
    \/ ~(required \subseteq item.keys)
    \/ item.keys \cap listTyped # {}
    \/ DurationValidator(m, item.start).exc = "ValueError"

HistoryInvalid(m, h, required, listTyped) ==
    \E i \in 1..Len(h.items) :
        ItemInvalid(m, h.items[i], required, listTyped)

(* An exception of a validator that is no ValueError is not collected.     *)
HistoryRaises(m, h) ==
    \E i \in 1..Len(h.items) :
        DurationValidator(m, h.items[i].start).exc = "AttributeError"

(* The record built from a valid candidate: the declared fields only       *)
(* (pydantic's default for keys a class does not declare is to ignore      *)
(* them).                                                                  *)
Declared(m, c) ==
    Candidate(Contact(c.contactInformation.keys \cap ContactDeclared(m)),
              c.workHistory, c.educationHistory, {})

(* PydanticResume built from the candidate's keys with the class of        *)
(* module m (the class is                                                  *)
(* named Resume in the two scripts).                                       *)
PydanticResume(m, c) ==
    LET invalid ==
            \/ \E k \in ResumeRequired : ~c[k].present
            \/ /\ c.contactInformation.present
               /\ ~(ContactRequired(m) \subseteq c.contactInformation.keys)
            \/ HistoryInvalid(m, c.workHistory, WorkRequired, {})
            \/ HistoryInvalid(m, c.educationHistory, EducationRequired(m),
                              EducationListTyped(m))
    IN  IF import_module(m) # "none" THEN ResumeFail(import_module(m))
        ELSE IF HistoryRaises(m, c.workHistory)
                  \/ HistoryRaises(m, c.educationHistory)
        THEN ResumeFail("AttributeError")
        ELSE IF invalid THEN ResumeFail("ValidationError")
        ELSE ResumeOk(Declared(m, c))

ModelCall(m, cls, arg, r) ==
    [module |-> m, cls |-> cls, arg |-> arg, exc |-> r.exc, ret |-> r.ret]

ModelInit ==
    /\ validated_json_schema = Unbound
    /\ validator = Unbound
    /\ errorsDir = "present"
    /\ errorFiles = [f \in ErrorFileNames |-> "none"]
    /\ ncalls = 0
    /\ last = Op("new", 0, NotGiven, NotGiven, Return(PyNone))
    /\ model = NoModelCall
    /\ ExtractIdle

(* A behaviour is one use of a class in a fresh interpreter: import the    *)
(* class from module m and build a Duration.                               *)
ConstructDuration ==
    /\ model = NoModelCall
    /\ \E m \in Modules, value \in DateValues :
          model' = ModelCall(m, "Duration", value, Duration(m, value))
    /\ UNCHANGED <<factoryVars, utilVars, last, extractVars>>

(* Import the class from module m and build a Resume Record.               *)
ConstructResume ==
    /\ model = NoModelCall
    /\ \E m \in Modules, c \in Candidates :
          model' = ModelCall(m, "PydanticResume", c, PydanticResume(m, c))
    /\ UNCHANGED <<factoryVars, utilVars, last, extractVars>>

ModelNext ==
    \/ ConstructDuration
    \/ ConstructResume

ModelSpec == ModelInit /\ [][ModelNext]_vars

-----------------------------------------------------------------------------
(* src/groq_app.py and src/json_app.py.  Their functions are applied as    *)
(* the units of code they are, in an interpreter in which the names the    *)
(* file imports are bound; what a run of each file does, imports first, is *)
(* the subject of RunScript.                                               *)

(* A text is given by its length in characters.                            *)
Text(n) == [len |-> n]
DocumentTexts == {Text(1000), Text(5000), Text(9000)}
SchemaTexts == {Text(192), Text(3192), Text(4000)}

(* What chat.completions.create hands back: the call raises, or returns    *)
(* None, an object without a choices list, with an empty one, with a first *)
(* choice without message.content, or a completion whose message.content   *)
(* is None, a mapping, the text of a JSON value, text that is no JSON, or  *)
(* a value of another type (a list, an int); mentionsError says whether    *)
(* `"error" in content` holds.                                             *)
Content(kind, val, err) == [kind |-> kind, val |-> val, mentionsError |-> err]
NoContent == Content("None", PyNone, FALSE)
Response(shape, content) == [shape |-> shape, content |-> content]

JsonValues == {Dict(m) : m \in Instances} \cup {PyNone, PyList, PyStr}

Contents ==
    {Content("json", v, FALSE) : v \in JsonValues}
      \cup {Content("json", Dict(Inst(Keys, {})), TRUE)}
      \cup {Content("notjson", PyNone, e) : e \in BOOLEAN}
      \cup {Content("dict", Dict(Inst(Keys, {})), e) : e \in BOOLEAN}
      \cup {Content("list", PyList, FALSE), Content("int", PyInt, FALSE)}
      \cup {NoContent}

Responses ==
    {Response(sh, NoContent) :
        sh \in {"ApiError", "None", "NoChoices", "EmptyChoices",
                "NoMessage"}}
      \cup {Response("completion", c) : c \in Contents}

(* json.loads(content).                                                    *)
json_loads(content) ==
    CASE content.kind = "json" -> Return(content.val)
      [] content.kind = "notjson" -> Raise("JSONDecodeError")
      [] OTHER -> Raise("TypeError")

(* The request each provider function builds: the roles of its messages,   *)
(* the part that holds the text of the document and the part that holds    *)
(* the schema, and whether the text of the document stands between two     *)
(* lines of ------.  A set holds the value of a parameter the call passes  *)
(* and is empty when the call leaves it out.                               *)
GroqRequest ==
    [provider |-> "groq", model |-> "llama3-groq-8b-8192-tool-use-preview",
     roles |-> <<"system", "user">>, documentIn |-> "system",
     delimited |-> FALSE,
     schemaIn |-> "response_format", temperature |-> {0},
     max_tokens |-> {8192}, response_format |-> "json_object"]

OpenaiRequest ==
    [provider |-> "openai", model |-> "gpt-4o-2024-08-06",
     roles |-> <<"system", "user">>, documentIn |-> "user",
     delimited |-> TRUE,
     schemaIn |-> "response_format", temperature |-> {},
     max_tokens |-> {}, response_format |-> "json_schema"]

(* The outcome of a function: the exception that leaves it or the value it *)
(* returns, and what it logged.                                            *)
Outcome(e, v, L) == [exc |-> e, ret |-> v, log |-> L]

(* response.choices[0].message.content of groq_process_resume_text.        *)
groq_content(response) ==
    CASE response.shape \in {"None", "NoChoices", "NoMessage"} ->
             Raise("AttributeError")
      [] response.shape = "EmptyChoices" -> Raise("IndexError")
      [] OTHER -> Return(PyStr)

(* groq_process_resume_text: the request is built and sent whatever the    *)
(* lengths of the two texts are; the handler names KeyError only, which    *)
(* none of the statements of the try block raises.                         *)
groq_process_resume_text(resume_text, resume_schema_str, response) ==
    LET got == groq_content(response)
        parsed == json_loads(response.content)
    IN  IF response.shape = "ApiError" THEN Outcome("APIError", PyNone, {})
        ELSE IF got.exc # "none" THEN Outcome(got.exc, PyNone, {})
        ELSE Outcome(parsed.exc, parsed.ret, {})

(* The messages openai_process_resume_text logs.                           *)
LogIsResponse == "isResponse: %s"
LogNoResponse == "Error no response from OpenAI"
LogNoChoices == "Error no choices in response or choices is not a list"
LogEmptyChoices == "Error no choices in response"
LogNoMessage == "Error no message or content in response"
LogNoData == "Error no extracted data in response"
LogErrorKey == "Error: %s"
LogNotJson ==
    "Error extracted_data is a string that cannot be converted to a dict. error: %s"
LogNotDictOrStr == "Error extracted_data is not a dict or string"

(* openai_process_resume_text.  `"error" in extracted_data` raises          *)
(* TypeError on an int; `extracted_data['error']` is evaluated for the     *)
(* logging call: on a str it raises TypeError.                             *)
openai_process_resume_text(resume_content, resume_schema, response) ==
    LET c == response.content
        parsed == json_loads(c)
        none(msg) == Outcome("none", PyNone, {LogIsResponse, msg})
    IN  CASE response.shape = "ApiError" -> Outcome("APIError", PyNone, {})
          [] response.shape = "None" -> none(LogNoResponse)
          [] response.shape = "NoChoices" -> none(LogNoChoices)
          [] response.shape = "EmptyChoices" -> none(LogEmptyChoices)
          [] response.shape = "NoMessage" -> none(LogNoMessage)
          [] OTHER ->
               IF c.kind = "None" THEN none(LogNoData)
               ELSE IF c.kind = "int"
               THEN Outcome("TypeError", PyNone, {LogIsResponse})
               ELSE IF c.mentionsError
               THEN IF c.kind = "dict" THEN none(LogErrorKey)
                    ELSE Outcome("TypeError", PyNone, {LogIsResponse})
               ELSE IF c.kind = "dict"
               THEN Outcome("none", c.val, {LogIsResponse})
               ELSE IF c.kind = "list" THEN none(LogNotDictOrStr)
               ELSE IF parsed.exc = "JSONDecodeError" THEN none(LogNotJson)
               ELSE Outcome("none", parsed.ret, {LogIsResponse})

(* The last call: the function, its arguments, and how it ended (exit is   *)
(* the exit status of a run of a file, empty while the process lives).     *)
AppCall(op, input, response, r, exit) ==
    [op |-> op, input |-> input, response |-> response, exc |-> r.exc,
     ret |-> r.ret, exit |-> exit]

AppInit ==
    /\ validated_json_schema = Unbound
    /\ validator = Unbound
    /\ errorsDir \in {"present", "absent"}
    /\ errorFiles = [f \in ErrorFileNames |-> "none"]
    /\ ncalls = 0
    /\ last = Op("new", 0, NotGiven, NotGiven, Return(PyNone))
    /\ model = NoModelCall
    /\ ExtractIdle

(* A behaviour is one call in a fresh interpreter.                         *)
GroqProcessResumeText ==
    /\ app = NoAppCall
    /\ \E resume_text \in DocumentTexts, resume_schema_str \in SchemaTexts,
          response \in Responses :
          LET r == groq_process_resume_text(resume_text, resume_schema_str,
                                            response)
          IN  /\ requests' = Append(requests, GroqRequest)
              /\ log' = log \cup r.log
              /\ app' = AppCall("groq_process_resume_text",
                                [text |-> resume_text,
                                 schema |-> resume_schema_str],
                                response, r, {})
    /\ UNCHANGED <<factoryVars, utilVars, last, model, resultsFile>>

OpenaiProcessResumeText ==
    /\ app = NoAppCall
    /\ \E resume_content \in DocumentTexts, resume_schema \in SchemaTexts,
          response \in Responses :
          LET r == openai_process_resume_text(resume_content, resume_schema,
                                              response)
          IN  /\ requests' = Append(requests, OpenaiRequest)
              /\ log' = log \cup r.log
              /\ app' = AppCall("openai_process_resume_text",
                                [text |-> resume_content,
                                 schema |-> resume_schema],
                                response, r, {})
    /\ UNCHANGED <<factoryVars, utilVars, last, model, resultsFile>>

(* src/src/content_loader.py.  A DOCX file is given by the texts of its    *)
(* paragraphs, in document order.                                          *)
DocxOf(paragraphs) ==
    [kind |-> "docx",
     map |-> [i \in DOMAIN paragraphs |-> Str(paragraphs[i])]]

Docx == DocxOf(<<"John Doe", "Engineer">>)

(* A zip archive that holds no document part.                              *)
NotDocx == [kind |-> "zip", map |-> EmptyMap]

(* docx.Document(file_path): the paragraphs of the document, those of the  *)
(* built-in template (none) when the path is None, or the exception the    *)
(* library raises.                                                         *)
Document(file) ==
    CASE file.kind = "docx" ->
             [exc |-> "none",
              paragraphs |-> [i \in DOMAIN file.map |-> file.map[i].s]]
      [] file = NoPath -> [exc |-> "none", paragraphs |-> <<>>]
      [] file = NotDocx -> [exc |-> "KeyError", paragraphs |-> <<>>]
      [] OTHER -> [exc |-> "PackageNotFoundError", paragraphs |-> <<>>]

(* '\n'.join(content)                                                      *)
RECURSIVE join(_)
join(content) ==
    IF content = <<>> THEN ""
    ELSE IF Len(content) = 1 THEN content[1]
    ELSE content[1] \o "\n" \o join(Tail(content))

LogDocxError == "Error reading DOCX file: %s"
LogDocxLoaded == "Content Str len: %d"

(* How a call of load_docx_data ends: as Outcome, with the text of the str *)
(* it returned.                                                            *)
Loaded(e, v, L, text) == [exc |-> e, ret |-> v, log |-> L, text |-> text]

(* load_docx_data with a handler that logs and returns None.               *)
load_docx_data_ReturnsNone(file) ==
    LET doc == Document(file)
    IN  IF doc.exc # "none" THEN Loaded("none", PyNone, {LogDocxError}, "")
        ELSE Loaded("none", PyStr, {LogDocxLoaded}, join(doc.paragraphs))

(* load_docx_data: the handler logs the exception and raises it again.     *)
load_docx_data(file) ==
    LET doc == Document(file)
    IN  IF doc.exc # "none" THEN Loaded(doc.exc, PyNone, {LogDocxError}, "")
        ELSE Loaded("none", PyStr, {LogDocxLoaded}, join(doc.paragraphs))

(* The documents load_docx_data is called on: of up to MaxParagraphs       *)
(* paragraphs, some of them empty.                                         *)
MaxParagraphs == 3
ParagraphTexts == {"", "John Doe", "Engineer"}

DocxFiles ==
    {DocxOf(paragraphs) :
        paragraphs \in UNION {[1..n -> ParagraphTexts] : n \in 0..MaxParagraphs}}

LoadDocxData ==
    /\ app = NoAppCall
    /\ \E file \in DocxFiles \cup {NoPath, NoFile, BadJson, NotDocx} :
          LET r == load_docx_data(file)
          IN  /\ log' = log \cup r.log
              /\ app' = [op |-> "load_docx_data", input |-> file,
                         exc |-> r.exc, ret |-> r.ret, text |-> r.text]
    /\ UNCHANGED <<factoryVars, utilVars, last, model, requests, resultsFile>>

(* A schema_def as test_schema_def sees it: what its resume_text_path      *)
(* names (NoPath when the variable RESUME_DOCX_PATH is unset), the file at *)
(* its schema_path, and the file at its data_object_path (NotGiven when    *)
(* the key is missing or TEST_DATA_OBJECT_PATH is unset).                  *)
SchemaDef(doc, sf, df, rp) ==
    [resume_text_path |-> doc, schema_path |-> sf, data_object_path |-> df,
     results_path |-> rp]

SchemaDefs ==
    {SchemaDef(doc, sf, df, rp) :
        rp \in {MasterResultsPath, section_schema_defs[1].results_path},
        doc \in {NoPath, NoFile, NotDocx, Docx},
        sf \in SchemaFiles \ {NoPath},
        df \in {NotGiven, NoFile, BadJson, Dict(Inst({}, {})),
                Dict(Inst(Keys, {}))}}

LogPathNotSet == "Error: resume_text_path is not set"
LogTextIsNone == "Error: resume_text is None"
LogExtractedNull == "Error: extracted_object is null"
LogSaving == "saving extracted_object to %s"

(* How a call ends: as Outcome, with the chat-completion requests it sent, *)
(* what the results paths hold and the error files.                        *)
Ended(e, v, L, sent, results, files) ==
    [exc |-> e, ret |-> v, log |-> L, sent |-> sent, results |-> results,
     files |-> files]

(* test_schema_def with a second request after an extraction that raised   *)
(* or returned None.                                                       *)
test_schema_def_Retries(schema_def, response, dir, files, results) ==
    LET x == groq_process_resume_text(PyStr, PyStr, response)
    IN  {Ended(x.exc, x.ret, {},
               IF x.exc # "none" \/ x.ret = PyNone
               THEN <<GroqRequest, GroqRequest>> ELSE <<GroqRequest>>,
               results, files)}

(* test_schema_def without its test of extracted_object.                   *)
test_schema_def_SavesNone(schema_def, response, dir, files, results) ==
    LET x == groq_process_resume_text(PyStr, PyStr, response)
    IN  {Ended(x.exc, x.ret, {LogSaving}, <<GroqRequest>>,
               IF x.exc = "none"
               THEN [results EXCEPT ![schema_def.results_path] =
                                        JsonDump(x.ret, 2)]
               ELSE results,
               files)}

(* test_schema_def: the set of ways the call can end (the side-check of    *)
(* the known data object may end in several ways).  The text of the schema *)
(* is the str json.dumps(resume_schema_object, indent=2) returns.          *)
test_schema_def(schema_def, response, dir, files, results) ==
    LET text == load_docx_data(schema_def.resume_text_path)
        schema == read_json_schema_file(schema_def.schema_path)
        known == read_json_file(schema_def.data_object_path)
        checks ==
            IF schema_def.data_object_path = NotGiven
            THEN {[exc |-> "none", ret |-> PyNone, files |-> files]}
            ELSE IF known.exc # "none"
            THEN {[exc |-> known.exc, ret |-> PyNone, files |-> files]}
            ELSE validate_json_schema_object(schema.ret, known.ret, dir,
                                             files)
        x == groq_process_resume_text(text.ret, PyStr, response)
    IN  IF schema_def.resume_text_path = NoPath
        THEN {Ended("none", PyNone, {LogPathNotSet}, <<>>, results, files)}
        ELSE IF text.exc # "none"
        THEN {Ended(text.exc, PyNone, text.log, <<>>, results, files)}
        ELSE IF text.ret = PyNone
        THEN {Ended("none", PyNone, text.log \cup {LogTextIsNone}, <<>>,
                    results, files)}
        ELSE IF schema.exc # "none"
        THEN {Ended(schema.exc, PyNone, text.log, <<>>, results, files)}
        ELSE {IF c.exc # "none"
              THEN Ended(c.exc, PyNone, text.log, <<>>, results, c.files)
              ELSE IF x.exc # "none"
              THEN Ended(x.exc, PyNone, text.log, <<GroqRequest>>, results, c.files)
              ELSE IF x.ret = PyNone
              THEN Ended("none", PyNone, text.log \cup {LogExtractedNull},
                         <<GroqRequest>>, results, c.files)
              ELSE Ended("none", x.ret, text.log \cup {LogSaving}, <<GroqRequest>>,
                         [results EXCEPT ![schema_def.results_path] =
                                             JsonDump(x.ret, 2)],
                         c.files)
              : c \in checks}

(* The effects of a call that ended as r.                                  *)
Effects(op, input, response, r, exit) ==
    /\ requests' = requests \o r.sent
    /\ resultsFile' = r.results
    /\ errorFiles' = r.files
    /\ log' = log \cup r.log
    /\ app' = AppCall(op, input, response, r, exit)

TestSchemaDef ==
    /\ app = NoAppCall
    /\ \E schema_def \in SchemaDefs, response \in Responses :
          \E r \in test_schema_def(schema_def, response, errorsDir,
                                   errorFiles, resultsFile) :
              Effects("test_schema_def", schema_def, response, r, {})
    /\ UNCHANGED <<factoryVars, errorsDir, ncalls, last, model>>

(* The candidate mapping PydanticResume receives from an extracted object. *)
(* An object value stands for contactInformation with the keys it lists,   *)
(* an array value for a history of one fully populated item, or of none    *)
(* when the array is empty; a value of another type is no valid field.     *)
ToCandidate(obj) ==
    LET m == obj.map
        has(k, t) == k \in DOMAIN m /\ m[k].t = t
        history(k, item) ==
            IF ~has(k, "array") THEN NoHistory
            ELSE IF m[k].l = {} THEN History(<<>>)
            ELSE History(<<item>>)
    IN  Candidate(IF has("contactInformation", "object")
                  THEN Contact(m["contactInformation"].l) ELSE NoContact,
                  history("workHistory", FullWorkItem(DateNone)),
                  history("educationHistory", FullEducationItem(DateNone)),
                  DOMAIN m \ ResumeRequired)

LogPydanticSuccess ==
    "SUCCESS groq_resume_object is valid against the PydanticResume model"
LogPydanticInvalid ==
    "groq_resume_object is invalid against the PydanticResume model. Error saved to: %s"

(* test_pydantic_resume.  The name PydanticResume is bound by importing    *)
(* src.pydantic_resume only, so its use has the outcome of that import;    *)
(* `**` of a value that is no mapping raises TypeError.  The handler       *)
(* prints and returns False: it writes no error file.                      *)
test_pydantic_resume(groc_resume_object) ==
    LET r == PydanticResume("src.pydantic_resume",
                            ToCandidate(groc_resume_object))
    IN  IF groc_resume_object.kind # "dict"
        THEN Outcome("TypeError", PyNone, {})
        ELSE IF r.exc = "ValidationError"
        THEN Outcome("none", PyFalse, {LogPydanticInvalid})
        ELSE IF r.exc # "none" THEN Outcome(r.exc, PyNone, {})
        ELSE Outcome("none", PyTrue, {LogPydanticSuccess})

(* What a run of groq_app.py finds: the document RESUME_DOCX_PATH names,   *)
(* the master schema file, the file TEST_DATA_OBJECT_PATH names, the first *)
(* section's schema file, and the completions of the two requests.         *)
GroqEnv(doc, sf, df, ssf, r1, r2) ==
    [document |-> doc, schema_file |-> sf, data_file |-> df,
     section_schema_file |-> ssf, response1 |-> r1, response2 |-> r2]

RequiresEmail ==
    Dict(MkSchema(Str("object"), List({"email"}), Obj("string", Keys)))

(* A schema that requires the three top-level keys of a resume, and an     *)
(* object that holds them.                                                 *)
ResumeSchema == Dict(MkSchema(Str("object"), List(ResumeRequired), Absent))

ResumeObject ==
    Dict([k \in ResumeRequired |->
             IF k = "contactInformation" THEN Obj("string", Keys)
             ELSE List({"item"})])

MainSchemaFiles ==
    {RequiresEmail, ResumeSchema, Dict(EmptyMap), BadJson, NoFile}

Conforming ==
    Response("completion", Content("json", Dict(Inst(Keys, {})), FALSE))
OmitsEmail ==
    Response("completion",
             Content("json", Dict(Inst({"firstName", "lastName"}, {})), FALSE))

MainResponses ==
    {Conforming, OmitsEmail,
     Response("completion", Content("json", ResumeObject, FALSE)),
     Response("completion", Content("json", PyNone, FALSE)),
     Response("completion", Content("notjson", PyNone, FALSE)),
     Response("ApiError", NoContent)}

GroqEnvs ==
    {GroqEnv(doc, sf, df, ssf, r1, r2) :
        doc \in {NoPath, NoFile, Docx}, sf \in MainSchemaFiles,
        df \in {NotGiven, Dict(Inst(Keys, {}))},
        ssf \in {RequiresEmail, NoFile},
        r1 \in MainResponses, r2 \in MainResponses}

LogMasterFailed == "Error: resumeMasterSchema_def failed"
LogMasterExtracted == "SUCCESS: master_groq_extracted_mobject extracted"
LogSchemaFailed ==
    "Error: groq_extracted_object failed schema validation. Error saved to: %s"
LogSchemaPassed == "SUCCESS: groq_extracted_object passed schema validation"
LogPydanticPassed == "SUCCESS: groq_extracted_object passed PydanticResume test"
LogPydanticFailed ==
    "Error: groq_extracted_object failed Pydantic validation. Error saved to: %s"

(* How a call of one of the two test functions ends: as Ended, with the    *)
(* stages of the function that were begun.                                 *)
Staged(t, stages) ==
    [exc |-> t.exc, ret |-> t.ret, log |-> t.log, sent |-> t.sent,
     results |-> t.results, files |-> t.files, stages |-> stages]

MasterStages == {"extraction", "schema", "pydantic"}

(* The third stage of test_resume_master_schema, after a test_schema_def   *)
(* that ended as t and a schema stage that logged L and left the files:    *)
(* a ValidationError that leaves test_pydantic_resume is logged and        *)
(* written to ./errors/pydantic_validation_error.txt; the else branch logs *)
(* success whatever test_pydantic_resume returned.                         *)
MasterPydanticStage(t, L, dir, files) ==
    LET p == test_pydantic_resume(t.ret)
        w == write_error_file("pydantic_validation_error", p.exc, dir, files)
        end(e, v, msgs, fs) ==
            Staged(Ended(e, v, L \cup p.log \cup msgs, t.sent, t.results, fs),
                   MasterStages)
    IN  IF p.exc = "ValidationError"
        THEN IF w.exc # "none"
             THEN end(w.exc, PyNone, {LogPydanticFailed}, w.files)
             ELSE end("none", PyTrue, {LogPydanticFailed}, w.files)
        ELSE IF p.exc # "none" THEN end(p.exc, PyNone, {}, files)
        ELSE end("none", PyTrue, {LogPydanticPassed}, files)

(* The second stage: the extracted object is validated again; a failure is *)
(* logged and written to ./errors/schema_validation_error.txt, and an      *)
(* exception of that write leaves the function.                            *)
MasterSchemaStage(t, schema, dir) ==
    {LET w == write_error_file("schema_validation_error", v.exc, dir, v.files)
         L == t.log \cup {LogMasterExtracted}
     IN  IF v.exc = "none"
         THEN MasterPydanticStage(t, L \cup {LogSchemaPassed}, dir, v.files)
         ELSE IF w.exc # "none"
         THEN Staged(Ended(w.exc, PyNone, L \cup {LogSchemaFailed}, t.sent,
                           t.results, w.files), {"extraction", "schema"})
         ELSE MasterPydanticStage(t, L \cup {LogSchemaFailed}, dir, w.files)
     : v \in validate_data_object(schema, t.ret, dir, t.files)}

(* test_resume_master_schema: the set of ways the call can end.            *)
test_resume_master_schema(env, dir, files, results) ==
    LET def == SchemaDef(env.document, env.schema_file, env.data_file,
                         MasterResultsPath)
        schema == read_json_schema_file(env.schema_file)
    IN  UNION
        {IF t.exc # "none" THEN {Staged(t, {"extraction"})}
         ELSE IF Falsy(t.ret)
         THEN {Staged(Ended("none", PyFalse, t.log \cup {LogMasterFailed},
                            t.sent, t.results, t.files), {"extraction"})}
         ELSE MasterSchemaStage(t, schema.ret, dir)
         : t \in test_schema_def(def, env.response1, dir, files, results)}

LogSectionFailure(title) == "Error: " \o title \o " extraction failure"
LogSectionSuccess(title) == "SUCCESS: " \o title \o " extraction successful"
LogSectionInvalid(title) ==
    "Error: " \o title
        \o " extracted object failed schema validation. Error saved to: %s"
LogSectionErrors == "section_errors count: %d"
LogSectionException == "Error: invalid json schema object type: <class 'str'>"

(* An entry of section_errors: the title of the section it is about and    *)
(* whether it is the extraction-failure str or the exception caught.       *)
SectionError(title, kind) == [title |-> title, kind |-> kind]

(* The state of the loop of test_resume_section_schemas: as Ended, with    *)
(* the titles processed so far and section_errors.                         *)
Looped(t, stages, errors) ==
    [exc |-> t.exc, ret |-> t.ret, log |-> t.log, sent |-> t.sent,
     results |-> t.results, files |-> t.files, stages |-> stages,
     section_errors |-> errors]

(* The validation of a section's extracted object: the schema argument is  *)
(* section_schema_def['schema_path'], a str; an exception is logged,       *)
(* written to an error file and appended to section_errors.                *)
SectionSchemaStage(title, t, dir, st) ==
    {LET w == write_error_file(SectionErrorFile(title), v.exc, dir, v.files)
         L == st.log \cup t.log \cup {LogSectionSuccess(title)}
         sent == st.sent \o t.sent
         stages == st.stages \cup {title}
     IN  IF v.exc = "none"
         THEN Looped(Ended("none", PyNone, L, sent, t.results, v.files),
                     stages, st.section_errors)
         ELSE IF w.exc # "none"
         THEN Looped(Ended(w.exc, PyNone, L \cup {LogSectionInvalid(title)},
                           sent, t.results, w.files),
                     stages, st.section_errors)
         ELSE Looped(Ended("none", PyNone, L \cup {LogSectionInvalid(title)},
                           sent, t.results, w.files),
                     stages,
                     Append(st.section_errors, SectionError(title, v.exc)))
     : v \in validate_data_object(PyStr, t.ret, dir, t.files)}

(* One pass of the body of the loop, on the definition at position i.  The *)
(* file at every section's schema_path and the completion of every         *)
(* section's request are the ones the environment holds.                   *)
SectionBody(i, env, dir, st) ==
    LET title == section_schema_defs[i].title
        def == SchemaDef(env.document, env.section_schema_file, NotGiven,
                         section_schema_defs[i].results_path)
    IN  UNION
        {IF t.exc # "none"
         THEN {Looped(Ended(t.exc, PyNone, st.log \cup t.log,
                            st.sent \o t.sent, t.results, t.files),
                      st.stages \cup {title}, st.section_errors)}
         ELSE IF Falsy(t.ret)
         THEN {Looped(Ended("none", PyNone, st.log \cup t.log,
                            st.sent \o t.sent, t.results, t.files),
                      st.stages \cup {title},
                      Append(st.section_errors,
                             SectionError(title, "extraction failure")))}
         ELSE SectionSchemaStage(title, t, dir, st)
         : t \in test_schema_def(def, env.response2, dir, st.files,
                                 st.results)}

(* `for section_schema_def in section_schema_defs:` without the break that *)
(* ends its body.                                                          *)
SectionLoopEnds_NoBreak(i) == i = Len(section_schema_defs)

(* `# break after the first section`: the statement that ends the body of  *)
(* the loop is an unconditional break.                                     *)
BreakEndsBody == TRUE

(* The loop ends after the pass on the last definition, or at the break.   *)
SectionLoopEnds(i) == i = Len(section_schema_defs) \/ BreakEndsBody

RECURSIVE SectionLoop(_, _, _, _)
SectionLoop(i, env, dir, st) ==
    UNION
    {IF s.exc # "none" \/ SectionLoopEnds(i) THEN {s}
     ELSE SectionLoop(i + 1, env, dir, s)
     : s \in SectionBody(i, env, dir, st)}

(* What the function logs for the entries of section_errors.               *)
SectionErrorLog(errors) ==
    {LogSectionErrors}
      \cup {IF errors[j].kind = "extraction failure"
            THEN LogSectionFailure(errors[j].title)
            ELSE LogSectionException : j \in 1..Len(errors)}

(* test_resume_section_schemas: the set of ways the call can end.          *)
test_resume_section_schemas(env, dir, files, results) ==
    LET st0 == Looped(Ended("none", PyNone, {}, <<>>, results, files), {},
                      <<>>)
    IN  {IF s.exc # "none" THEN s
         ELSE IF Len(s.section_errors) > 0
         THEN [s EXCEPT !.ret = PyFalse,
                        !.log = @ \cup SectionErrorLog(s.section_errors)]
         ELSE [s EXCEPT !.ret = PyTrue]
         : s \in SectionLoop(1, env, dir, st0)}

LogDone == "!!! DONE !!!"

(* How a run of a file, or of its main block, ends: as Ended, with the     *)
(* exit status of the process, the steps the run began and the values the  *)
(* test functions returned.                                                *)
RunEnded(t, L, sent, exit, steps, reports) ==
    [exc |-> t.exc, ret |-> PyNone, log |-> L, sent |-> sent,
     results |-> t.results, files |-> t.files, exit |-> exit,
     steps |-> steps, reports |-> reports]

(* The main block of groq_app.py: both tests are called and what they      *)
(* return is dropped; the process ends with status 0 unless an exception   *)
(* leaves one of them.                                                     *)
groq_app_main(env, dir, files, results) ==
    UNION
    {IF m.exc # "none"
     THEN {RunEnded(m, m.log, m.sent, {1}, {"master"}, <<>>)}
     ELSE {IF x.exc # "none"
           THEN RunEnded(x, m.log \cup x.log, m.sent \o x.sent, {1},
                         {"master", "section"}, <<m.ret>>)
           ELSE RunEnded(x, m.log \cup x.log \cup {LogDone},
                         m.sent \o x.sent, {0}, {"master", "section"},
                         <<m.ret, x.ret>>)
           : x \in test_resume_section_schemas(env, dir, m.files, m.results)}
     : m \in test_resume_master_schema(env, dir, files, results)}

(* What a run of json_app.py finds: the file at "src/resume-schema.json",  *)
(* the file at "src/resume.docx" and the completion of its request.        *)
JsonEnv(sf, doc, r) == [schema_file |-> sf, document |-> doc, response |-> r]

JsonEnvs ==
    {JsonEnv(sf, doc, r) :
        sf \in MainSchemaFiles, doc \in {NoFile, Docx}, r \in MainResponses}

LogError == "Error: %s"
LogExtractedIsNull == "Error openai_extracted_object is null"
LogNotConforming ==
    "Error openai_extracted_object does not conform to the resume_schema"
LogConforms == "SUCCESS!! openai_extracted_object conforms to the resume_schema!!"
LogResumeValid ==
    "SUCCESS openai_resume_object is valid against the PydanticResume model"
LogResumeInvalid ==
    "openai_resume_object is invalid against the PydanticResume model."

(* How the main block of json_app.py ends after the steps it began.        *)
JsonEnded(e, L, sent, exit, steps, files, results) ==
    RunEnded([exc |-> e, results |-> results, files |-> files], L, sent,
             exit, steps, <<>>)

(* The main block of json_app.py.  JsonSchemaFactory is called with the    *)
(* schema path only and validate_instance with the object only; an         *)
(* exception no handler names ends the process with status 1.              *)
json_app_main(env, files, results) ==
    LET f == JsonSchemaFactory_init(1, env.schema_file, NotGiven)
        schema == get_validated_json_schema(f.vjs)
        text == load_docx_data(env.document)
        x == openai_process_resume_text(text.ret, schema.ret, env.response)
        v == JsonSchemaFactory_validate_instance(1, x.ret, NotGiven)
        c == IF x.ret.kind # "dict" THEN ResumeFail("TypeError")
             ELSE PydanticResume("src.pydantic_resume", ToCandidate(x.ret))
        sent == <<OpenaiRequest>>
        s1 == {"factory"}
        s2 == s1 \cup {"schema"}
        s3 == s2 \cup {"document"}
        s4 == s3 \cup {"extraction"}
        s5 == s4 \cup {"validation"}
        s6 == s5 \cup {"construction"}
        L4 == text.log \cup x.log
        L5 == L4 \cup {LogConforms}
        end(e, L, rq, exit, steps) ==
            JsonEnded(e, L, rq, exit, steps, files, results)
    IN  IF IsValueError(f.exc) \/ f.exc = "FileNotFoundError"
        THEN end("SystemExit", {LogError}, <<>>, {1}, s1)
        ELSE IF f.exc # "none" THEN end(f.exc, {}, <<>>, {1}, s1)
        ELSE IF schema.exc # "none" THEN end(schema.exc, {}, <<>>, {1}, s2)
        ELSE IF text.exc # "none" THEN end(text.exc, text.log, <<>>, {1}, s3)
        ELSE IF x.exc # "none" THEN end(x.exc, L4, sent, {1}, s4)
        ELSE IF x.ret = PyNone
        THEN end("SystemExit", L4 \cup {LogExtractedIsNull}, sent, {1}, s4)
        ELSE IF v.exc # "none" THEN end(v.exc, L4, sent, {1}, s5)
        ELSE IF v.ret = PyFalse
        THEN end("SystemExit", L4 \cup {LogNotConforming}, sent, {1}, s5)
        ELSE IF c.exc = "ValidationError"
        THEN end("SystemExit", L5 \cup {LogResumeInvalid}, sent, {1}, s6)
        ELSE IF c.exc # "none" THEN end(c.exc, L5, sent, {1}, s6)
        ELSE end("none", L5 \cup {LogResumeValid, LogDone}, sent, {0}, s6)

(* The imports at the head of groq_app.py and of json_app.py: the one of   *)
(* src.pydantic_resume is the only one that depends on this repository's   *)
(* own text.                                                               *)
script_imports == import_module("src.pydantic_resume")

(* An uncaught exception of the imports ends the process with status 1     *)
(* before the main block begins.                                           *)
ImportEnded(files, results) ==
    RunEnded([exc |-> script_imports, results |-> results, files |-> files],
             {}, <<>>, {1}, {"import"}, <<>>)

(* `python groq_app.py`.                                                   *)
run_groq_app(env, dir, files, results) ==
    IF script_imports # "none" THEN {ImportEnded(files, results)}
    ELSE groq_app_main(env, dir, files, results)

(* `python json_app.py`.                                                   *)
run_json_app(env, files, results) ==
    IF script_imports # "none" THEN ImportEnded(files, results)
    ELSE json_app_main(env, files, results)

RunCall(op, input, r) ==
    [op |-> op, input |-> input, exc |-> r.exc, ret |-> r.ret,
     exit |-> r.exit, steps |-> r.steps, reports |-> r.reports]

RunEffects(op, input, r) ==
    /\ requests' = requests \o r.sent
    /\ resultsFile' = r.results
    /\ errorFiles' = r.files
    /\ log' = log \cup r.log
    /\ app' = RunCall(op, input, r)

(* The last call of one of the two test functions of groq_app.py.          *)
TestCall(op, input, r) ==
    [op |-> op, input |-> input, exc |-> r.exc, ret |-> r.ret,
     stages |-> r.stages,
     section_errors |->
         IF "section_errors" \in DOMAIN r THEN r.section_errors ELSE <<>>]

TestEffects(op, input, r) ==
    /\ requests' = requests \o r.sent
    /\ resultsFile' = r.results
    /\ errorFiles' = r.files
    /\ log' = log \cup r.log
    /\ app' = TestCall(op, input, r)

TestResumeMasterSchema ==
    /\ app = NoAppCall
    /\ \E env \in GroqEnvs :
          \E r \in test_resume_master_schema(env, errorsDir, errorFiles,
                                             resultsFile) :
              TestEffects("test_resume_master_schema", env, r)
    /\ UNCHANGED <<factoryVars, errorsDir, ncalls, last, model>>

TestResumeSectionSchemas ==
    /\ app = NoAppCall
    /\ \E env \in GroqEnvs :
          \E r \in test_resume_section_schemas(env, errorsDir, errorFiles,
                                               resultsFile) :
              TestEffects("test_resume_section_schemas", env, r)
    /\ UNCHANGED <<factoryVars, errorsDir, ncalls, last, model>>

(* The main block of groq_app.py, entered with the imports bound.          *)
GroqAppMain ==
    /\ app = NoAppCall
    /\ \E env \in GroqEnvs :
          \E r \in groq_app_main(env, errorsDir, errorFiles, resultsFile) :
              RunEffects("groq_app_main", env, r)
    /\ UNCHANGED <<factoryVars, errorsDir, ncalls, last, model>>

(* The main block of json_app.py, entered with the imports bound.          *)
JsonAppMain ==
    /\ app = NoAppCall
    /\ \E env \in JsonEnvs :
          RunEffects("json_app_main", env,
                     json_app_main(env, errorFiles, resultsFile))
    /\ UNCHANGED <<factoryVars, errorsDir, ncalls, last, model>>

RunGroqApp ==
    /\ app = NoAppCall
    /\ \E env \in GroqEnvs :
          \E r \in run_groq_app(env, errorsDir, errorFiles, resultsFile) :
              RunEffects("python groq_app.py", env, r)
    /\ UNCHANGED <<factoryVars, errorsDir, ncalls, last, model>>

RunJsonApp ==
    /\ app = NoAppCall
    /\ \E env \in JsonEnvs :
          RunEffects("python json_app.py", env,
                     run_json_app(env, errorFiles, resultsFile))
    /\ UNCHANGED <<factoryVars, errorsDir, ncalls, last, model>>

AppNext ==
    \/ GroqProcessResumeText
    \/ OpenaiProcessResumeText
    \/ LoadDocxData
    \/ TestSchemaDef
    \/ TestResumeMasterSchema
    \/ TestResumeSectionSchemas
    \/ GroqAppMain
    \/ JsonAppMain
    \/ RunGroqApp
    \/ RunJsonApp

AppSpec == AppInit /\ [][AppNext]_vars

-----------------------------------------------------------------------------
(* src/nlp-resume-extractor.py: preprocess_bert_output, applied as the     *)
(* unit of code it is.                                                     *)

(* A BIO label: 'O', or 'B-' or 'I-' followed by the type of the entity    *)
(* (label[2:]).                                                            *)
Label(tag, type) == [tag |-> tag, type |-> type]
Outside == Label("O", "")
EntityTypes == {"PER", "ORG"}
Labels == {Label(tag, ty) : tag \in {"B", "I"}, ty \in EntityTypes} \cup {Outside}

Tokens == {"John", "Doe", "Acme"}
MaxTokens == 3

Pair(token, label) == [token |-> token, label |-> label]

PairSeqs ==
    UNION {[1..n -> {Pair(t, l) : t \in Tokens, l \in Labels}] :
              n \in 0..MaxTokens}

(* The argument: the list of (token, label) pairs that line 83 builds with *)
(* list(zip(bert_tokens, bert_labels)), or a dict from token to label,     *)
(* whose keys are distinct and kept in insertion order.                    *)
BertOutput(kind, pairs) == [kind |-> kind, pairs |-> pairs]

BertOutputs ==
    {BertOutput("list", ps) : ps \in PairSeqs}
      \cup {BertOutput("dict", ps) :
               ps \in {q \in PairSeqs :
                          \A i, j \in DOMAIN q :
                              q[i].token = q[j].token => i = j}}

(* current_entity: None, or a dict with the keys 'type' and 'text'.        *)
NoEntity == [open |-> FALSE, type |-> "", text |-> ""]
Entity(type, text) == [open |-> TRUE, type |-> type, text |-> text]

(* The loop of preprocess_bert_output over the items from position i on,   *)
(* and the statement after it.  The I- branch does not look at the type of *)
(* the label.                                                              *)
RECURSIVE EntityLoop(_, _, _, _)
EntityLoop(items, i, entities, current_entity) ==
    IF i > Len(items)
    THEN IF current_entity.open THEN Append(entities, current_entity)
         ELSE entities
    ELSE LET token == items[i].token
             label == items[i].label
         IN  IF label.tag = "B"
             THEN EntityLoop(items, i + 1,
                             IF current_entity.open
                             THEN Append(entities, current_entity)
                             ELSE entities,
                             Entity(label.type, token))
             ELSE IF label.tag = "I" /\ current_entity.open
             THEN EntityLoop(items, i + 1, entities,
                             Entity(current_entity.type,
                                    current_entity.text \o " " \o token))
             ELSE IF label = Outside /\ current_entity.open
             THEN EntityLoop(items, i + 1, Append(entities, current_entity),
                             NoEntity)
             ELSE EntityLoop(items, i + 1, entities, current_entity)

(* preprocess_bert_output: `bert_output.items()` exists on a dict only.    *)
preprocess_bert_output(bert_output) ==
    IF bert_output.kind # "dict"
    THEN [exc |-> "AttributeError", bert_entities |-> <<>>]
    ELSE [exc |-> "none",
          bert_entities |-> EntityLoop(bert_output.pairs, 1, <<>>, NoEntity)]

NerInit ==
    /\ validated_json_schema = Unbound
    /\ validator = Unbound
    /\ errorsDir = "present"
    /\ errorFiles = [f \in ErrorFileNames |-> "none"]
    /\ ncalls = 0
    /\ last = Op("new", 0, NotGiven, NotGiven, Return(PyNone))
    /\ model = NoModelCall
    /\ ExtractIdle

(* A behaviour is one call in a fresh interpreter.                         *)
PreprocessBertOutput ==
    /\ app = NoAppCall
    /\ \E bert_output \in BertOutputs :
          LET r == preprocess_bert_output(bert_output)
          IN  app' = [op |-> "preprocess_bert_output", input |-> bert_output,
                      exc |-> r.exc, bert_entities |-> r.bert_entities]
    /\ UNCHANGED <<factoryVars, utilVars, last, model, requests, resultsFile,
                   log>>

NerNext == PreprocessBertOutput

NerSpec == NerInit /\ [][NerNext]_vars

-----------------------------------------------------------------------------
(* Claims about the Resume Record model classes (ModelSpec).               *)

AcceptedExamples == {IsoDay, IsoMonth, IsoYear, AbbrDay, AbbrMonth}
RejectedExamples == {SlashDay, NotADate}

\* C11: the Duration validator of the Resume Record model the orchestrators
\* import (src.pydantic_resume) accepts a date string iff one of the seven
\* formats parses it: "2020-05-15", "2020-05", "2020", "May 15, 2020" and
\* "May 2020" build a Duration holding the string unchanged, "15/05/2020"
\* and "not-a-date" are rejected.
C11_SevenDateFormats ==
    (model.cls = "Duration" /\ model.module = "src.pydantic_resume") =>
        /\ model.arg \in AcceptedExamples =>
              model.exc = "none" /\ model.ret = model.arg
        /\ model.arg \in RejectedExamples => model.exc # "none"

ThreeNames == {"firstName", "lastName", "email"}
OneFullWorkItem ==
    {History(<<FullWorkItem(d)>>) : d \in {DateNone, IsoMonth, AbbrMonth}}

\* C12 as stated, for the classes that can be imported: construction fails
\* without contactInformation, fails with contactInformation (firstName,
\* lastName, email) but no workHistory, and succeeds once a workHistory of
\* one fully populated item is added to that object.
C12_WorkHistoryCompletes ==
    (model.cls = "PydanticResume" /\ model.module = "pydantic_app") =>
        /\ ~model.arg.contactInformation.present => model.exc # "none"
        /\ ~model.arg.workHistory.present => model.exc # "none"
        /\ (/\ ThreeNames \subseteq model.arg.contactInformation.keys
            /\ model.arg.workHistory \in OneFullWorkItem
            /\ ~model.arg.educationHistory.present) => model.exc = "none"

\* C12 (amended): with any of the three classes, construction fails without
\* contactInformation, fails without workHistory, and still fails when
\* contactInformation (firstName, lastName, email) and a workHistory of one
\* fully populated item are present but educationHistory is missing.
C12_ThreeKeysRequired ==
    model.cls = "PydanticResume" =>
        /\ ~model.arg.contactInformation.present => model.exc # "none"
        /\ ~model.arg.workHistory.present => model.exc # "none"
        /\ ~model.arg.educationHistory.present => model.exc # "none"

C12_Witness ==
    /\ model.cls = "PydanticResume"
    /\ model.module = "pydantic_app"
    /\ model.arg.contactInformation.keys = ThreeNames
    /\ model.arg.workHistory \in OneFullWorkItem
    /\ ~model.arg.educationHistory.present
    /\ model.arg.other = {}
    /\ model.exc = "ValidationError"

\* C13: Resume Record construction rejects every candidate whose workHistory
\* or educationHistory is present but an empty list.
C13_EmptyListsRejected ==
    (/\ model.cls = "PydanticResume"
     /\ \/ model.arg.workHistory = History(<<>>)
        \/ model.arg.educationHistory = History(<<>>))
        => model.exc # "none"

(* A candidate holding every required key with valid values, whatever      *)
(* other keys it holds.                                                    *)
CompleteCandidate(c) ==
    /\ ThreeNames \subseteq c.contactInformation.keys
    /\ c.workHistory \in OneFullWorkItem
    /\ c.educationHistory = History(<<FullEducationItem(IsoYear)>>)

-----------------------------------------------------------------------------
(* Claims about the extraction functions and the entry points (AppSpec).   *)

\* C15: in the Groq extraction path, when len(document) + len(schema_text)
\* exceeds 8192 the call fails with InvalidInput (ValueError) and issues no
\* chat-completion request; when the sum is at most 8192 the request is
\* issued.
C15_LengthGuard ==
    app.op = "groq_process_resume_text" =>
        IF app.input.text.len + app.input.schema.len > 8192
        THEN IsValueError(app.exc) /\ requests = <<>>
        ELSE Len(requests) = 1

ExtractionOps == {"groq_process_resume_text", "openai_process_resume_text"}

\* C16: in each provider's extraction function, message content that does
\* not parse as JSON is caught and the function returns None; the parse
\* error never propagates to the caller.
C16_ParseFailureCaught ==
    (/\ app.op \in ExtractionOps
     /\ app.response.shape = "completion"
     /\ app.response.content.kind = "notjson"
     /\ ~app.response.content.mentionsError)
        => app.exc = "none" /\ app.ret = PyNone

ResultsWritten(path) == resultsFile[path].written

JsonOps == {"python json_app.py", "json_app_main"}
GroqOps == {"python groq_app.py", "groq_app_main"}

(* The object the completion of a run holds, None when it holds no JSON.   *)
Extracted(response) ==
    IF response.shape = "completion" /\ response.content.kind = "json"
    THEN response.content.val ELSE PyNone

\* C17: in an orchestrator run Resume Record construction is attempted only
\* after the extracted object passed schema validation; when the object
\* does not conform to the (valid) schema, the failure is logged, the
\* process exits with status 1 and construction is never attempted.
C17_ValidationBeforeConstruction ==
    app.op \in JsonOps =>
        /\ "construction" \in app.steps => LogConforms \in log
        /\ (/\ MetaValid(app.input.schema_file)
            /\ ~Falsy(app.input.schema_file)
            /\ app.input.document = Docx
            /\ Extracted(app.input.response).kind = "dict"
            /\ ~Conforms(app.input.schema_file,
                         Extracted(app.input.response)))
              => /\ LogNotConforming \in log
                 /\ app.exit = {1}
                 /\ "construction" \notin app.steps

\* C18: given a valid schema file, a loadable document and a completion
\* whose object conforms to the schema and to the Resume Record model (as
\* the importable copy of the classes declares it), the orchestrator run
\* reports schema-validation success and Resume Record success and exits
\* with status 0.
C18_EndToEndSuccess ==
    (/\ app.op \in JsonOps
     /\ MetaValid(app.input.schema_file)
     /\ ~Falsy(app.input.schema_file)
     /\ app.input.document = Docx
     /\ Extracted(app.input.response).kind = "dict"
     /\ Conforms(app.input.schema_file, Extracted(app.input.response))
     /\ PydanticResume("pydantic_app",
                       ToCandidate(Extracted(app.input.response))).exc
            = "none")
        => /\ LogConforms \in log
           /\ LogResumeValid \in log
           /\ app.exit = {0}

\* C19: every entry point ends with status 1 whenever a step of its run
\* failed and with status 0 only when all succeeded; the batch harness
\* exits non-zero when the master-schema test or the section-schema tests
\* report failure.
C19_ExitStatus ==
    app.op \in JsonOps \cup GroqOps =>
        /\ app.exit \in {{0}, {1}}
        /\ app.exit = {0} =>
              /\ app.exc = "none"
              /\ \A i \in 1..Len(app.reports) : app.reports[i] = PyTrue

-----------------------------------------------------------------------------
(* Claims about the two test functions of groq_app.py (AppSpec).           *)

\* C21: in the master-schema test, once extraction has produced an object,
\* the schema re-validation stage and the Resume Record stage both run and
\* each logs its own success or failure whatever the other did; a failed
\* schema re-validation is always followed by the Resume Record attempt.
C21_StagesIndependent ==
    (/\ app.op = "test_resume_master_schema"
     /\ LogMasterExtracted \in log)
        => /\ {"schema", "pydantic"} \subseteq app.stages
           /\ LogSchemaPassed \in log \/ LogSchemaFailed \in log
           /\ LogPydanticPassed \in log \/ LogPydanticFailed \in log

\* C22: test_resume_section_schemas validates each extracted section object
\* against that section's own schema and returns True iff the failure list
\* is empty: a section that was extracted and whose object conforms to its
\* schema adds no entry to the list, and an extraction or validation
\* failure makes the result False.
C22_SectionResult ==
    app.op = "test_resume_section_schemas" =>
        LET schema == app.input.section_schema_file
            obj == Extracted(app.input.response2)
        IN  /\ app.exc = "none" =>
                  (app.ret = PyTrue <=> app.section_errors = <<>>)
            /\ (/\ app.input.document = Docx
                /\ MetaValid(schema)
                /\ ~Falsy(schema)
                /\ obj.kind = "dict"
                /\ ~Falsy(obj)
                /\ Conforms(schema, obj))
                  => /\ app.exc = "none"
                     /\ app.section_errors = <<>>
                     /\ app.ret = PyTrue

-----------------------------------------------------------------------------
(* Claims about the requests sent to the provider (AppSpec).               *)

PerDefinitionOps == {"test_schema_def"} \cup ExtractionOps

(* The completion could not be used: the call failed, or its content is no *)
(* JSON text.                                                              *)
Unusable(response) ==
    \/ response.shape # "completion"
    \/ response.content.kind \in {"notjson", "None"}

\* C23: there is no retry.  Within one orchestrator run and within one
\* per-definition test, chat.completions.create is called at most once;
\* after a call that failed or a completion that could not be parsed the
\* one request sent stays the only one, and an extraction function sends
\* exactly one.
C23_NoRetry ==
    /\ app.op \in PerDefinitionOps \cup JsonOps => Len(requests) <= 1
    /\ app.op \in ExtractionOps => Len(requests) = 1
    /\ (app.op = "test_schema_def" /\ Unusable(app.response)) =>
          requests \in {<<>>, <<GroqRequest>>}
    /\ app.op \in JsonOps => requests \in {<<>>, <<OpenaiRequest>>}

C23_Witness ==
    /\ app.op = "test_schema_def"
    /\ app.response.shape = "completion"
    /\ app.response.content.kind = "notjson"
    /\ app.exc = "JSONDecodeError"
    /\ requests = <<GroqRequest>>

-----------------------------------------------------------------------------
(* Claims about openai_process_resume_text (AppSpec).                      *)

\* C24: openai_process_resume_text returns None when the response is
\* absent, has no choices list, has an empty one, has a first choice
\* without message or content, or has content None; when the content is an
\* already-parsed mapping it returns that mapping, and when it is a string
\* holding a JSON object it returns the parsed mapping.
C24_ResponseShapes ==
    app.op = "openai_process_resume_text" =>
        LET c == app.response.content
        IN  /\ (\/ app.response.shape \in {"None", "NoChoices",
                                          "EmptyChoices", "NoMessage"}
                \/ (app.response.shape = "completion" /\ c.kind = "None"))
                  => app.exc = "none" /\ app.ret = PyNone
            /\ (app.response.shape = "completion" /\ c.kind = "dict")
                  => app.exc = "none" /\ app.ret = c.val
            /\ (/\ app.response.shape = "completion"
                /\ c.kind = "json"
                /\ c.val.kind = "dict")
                  => app.exc = "none" /\ app.ret = c.val

\* C25: for every message content the provider can return (None, any
\* string, a mapping, a value of another type) openai_process_resume_text
\* returns None or a mapping and never raises.
C25_NoneOrMapping ==
    (app.op = "openai_process_resume_text"
        /\ app.response.shape = "completion")
        => /\ app.exc = "none"
           /\ app.ret.kind \in {"None", "dict"}

-----------------------------------------------------------------------------
(* Claims about the Resume Record stage of the master-schema test and the  *)
(* section loop (AppSpec).                                                 *)

(* How the construction of a Resume Record from the object extracted by a  *)
(* call of test_resume_master_schema ends.                                 *)
MasterConstruction ==
    LET obj == Extracted(app.input.response1)
    IN  IF obj.kind # "dict" THEN "TypeError"
        ELSE PydanticResume("src.pydantic_resume", ToCandidate(obj)).exc

\* C26: in the master-schema test, whenever the construction of the Resume
\* Record from the extracted object fails, the error text is written to
\* ./errors/pydantic_validation_error.txt and the failure of the stage is
\* logged; the message that the object passed the PydanticResume test is
\* logged only when the construction succeeded.
C26_PydanticFailureRecorded ==
    (/\ app.op = "test_resume_master_schema"
     /\ "pydantic" \in app.stages)
        => /\ MasterConstruction # "none" =>
                 /\ errorFiles["pydantic_validation_error"] # "none"
                 /\ LogPydanticFailed \in log
           /\ LogPydanticPassed \in log => MasterConstruction = "none"

FirstSection == section_schema_defs[1]
OtherSections == {section_schema_defs[i] : i \in 2..Len(section_schema_defs)}

\* C27: test_resume_section_schemas runs the per-definition procedure for
\* at most the first of its six section definitions (contact information),
\* whether that section passes or fails: the other five sections are never
\* extracted, never written to their results paths and never contribute to
\* the failure list.
C27_FirstSectionOnly ==
    app.op = "test_resume_section_schemas" =>
        /\ app.stages \subseteq {FirstSection.title}
        /\ Len(requests) <= 1
        /\ \A d \in OtherSections :
              /\ ~ResultsWritten(d.results_path)
              /\ errorFiles[SectionErrorFile(d.title)] = "none"
              /\ \A j \in 1..Len(app.section_errors) :
                    app.section_errors[j].title # d.title
        /\ ~ResultsWritten(MasterResultsPath)

C27_Witness ==
    /\ app.op = "test_resume_section_schemas"
    /\ app.exc = "none"
    /\ app.stages = {FirstSection.title}
    /\ ResultsWritten(FirstSection.results_path)
    /\ requests = <<GroqRequest>>
    /\ Len(app.section_errors) = 1

-----------------------------------------------------------------------------
(* Claims about the content loader (AppSpec).                              *)

(* The text of the paragraphs ps, each but the first preceded by a newline. *)
RECURSIVE Lines(_, _)
Lines(ps, n) ==
    IF n = 0 THEN ""
    ELSE IF n = 1 THEN ps[1]
    ELSE Lines(ps, n - 1) \o "\n" \o ps[n]

-----------------------------------------------------------------------------
(* Claims about the entity aggregation (NerSpec).                          *)

(* The entities the BIO scheme yields for the pairs from position i on: an *)
(* I- label extends the open entity only when its type is that of the      *)
(* entity.                                                                 *)
RECURSIVE BioEntities(_, _, _, _)
BioEntities(pairs, i, closed, open) ==
    IF i > Len(pairs)
    THEN IF open.open THEN Append(closed, open) ELSE closed
    ELSE LET p == pairs[i]
             done == IF open.open THEN Append(closed, open) ELSE closed
         IN  CASE p.label.tag = "B" ->
                      BioEntities(pairs, i + 1, done,
                                  Entity(p.label.type, p.token))
               [] p.label.tag = "O" ->
                      BioEntities(pairs, i + 1, done, NoEntity)
               [] OTHER ->
                      IF open.open /\ p.label.type = open.type
                      THEN BioEntities(pairs, i + 1, closed,
                                       Entity(open.type,
                                              open.text \o " " \o p.token))
                      ELSE BioEntities(pairs, i + 1, closed, open)

(* The positions of the B- labels: one entity is opened at each.           *)
Openings(pairs) == {i \in DOMAIN pairs : pairs[i].label.tag = "B"}

\* C29: over any sequence of (token, label) pairs preprocess_bert_output
\* opens an entity on every B- label (closing the open one first), extends
\* the open entity only on an I- label of the entity's own type, closes it
\* on O or at the end of the sequence, and returns the entities in sequence
\* order, every opened entity exactly once.
C29_BioAggregation ==
    app.op = "preprocess_bert_output" =>
        /\ app.exc = "none"
        /\ app.bert_entities = BioEntities(app.input.pairs, 1, <<>>, NoEntity)
        /\ Len(app.bert_entities) = Cardinality(Openings(app.input.pairs))

-----------------------------------------------------------------------------
(* Claims about the shape of the extraction request (AppSpec).             *)

\* C30: every extraction request built by either provider's extraction
\* function carries exactly two messages, a system message followed by a
\* user message, with temperature 0; the system message embeds the JSON
\* text of the schema, and the user message holds the full text of the
\* document between a line of ------ before it and one after it.
C30_RequestShape ==
    \A i \in 1..Len(requests) :
        /\ requests[i].roles = <<"system", "user">>
        /\ requests[i].temperature = {0}
        /\ requests[i].schemaIn = "system"
        /\ requests[i].documentIn = "user"
        /\ requests[i].delimited

====
